---- MODULE Spec2Model ----
(***************************************************************************)
(* votalizer: the lockout-violation detector of src/main.rs.               *)
(*                                                                         *)
(* The state is the state of main(): the slot -> ancestors map, the map of *)
(* per-validator Towers, the two counters, and whether the process has     *)
(* panicked.  One action per select! branch of the event loop.  The        *)
(* variables event, calls, reported and inserted are history variables:    *)
(* they record the last event handled and what its handler did, and what   *)
(* the block-production source has reported so far; no action reads them   *)
(* to decide anything.  slots_stream and votes_stream say whether each     *)
(* subscription can still produce an event, pc whether main() is in its    *)
(* loop, and unsubscribed which unsubscribe calls main() has made.  files  *)
(* is the content of the incident report files in the working directory.   *)
(*                                                                         *)
(* The program's capacities are scaled down (see the definitions below);   *)
(* MAX_TRACKED_ANCESTORS and MAX_TRACKED_SLOTS are equal in the source and *)
(* are kept equal here.                                                    *)
(***************************************************************************)
EXTENDS Integers, Sequences, FiniteSets, TLC

VARIABLES slot_ancestors, towers, processed_vote_counter, incident_counter,
          panic, calls, event, reported, inserted,
          slots_stream, votes_stream, pc, unsubscribed, files

vars == <<slot_ancestors, towers, processed_vote_counter, incident_counter,
          panic, calls, event, reported, inserted,
          slots_stream, votes_stream, pc, unsubscribed, files>>

\* The two subscriptions and the position of main() relative to its loop.
loop_vars == <<slots_stream, votes_stream, pc, unsubscribed>>

(* ------------------------------ capacities ----------------------------- *)

\* solana_vote_program::vote_state::MAX_LOCKOUT_HISTORY (31), scaled down.
MAX_LOCKOUT_HISTORY == 3

\* 10 * 1_024 in the source, scaled down; equal to MAX_TRACKED_SLOTS.
MAX_TRACKED_ANCESTORS == 4

\* 10 * 1_024 in the source, scaled down.
MAX_TRACKED_SLOTS == 4

(* -------------------------------- bounds ------------------------------- *)

\* Spec (both event sources) and SpecVotes (vote events): slots are
\* 0 .. MaxSlot, at most MaxSlotEvents distinct block-production events, at
\* most MaxVotes votes processed.
MaxSlot == 3

MaxSlotEvents == 3

MaxVotes == 3

\* SpecTower (vote events of one slot each): slots are 0 .. TowerMaxSlot, at
\* most TowerMaxVotes votes processed.
TowerMaxSlot == 7

TowerMaxVotes == 5

\* SpecAncestry (block-production events): slots are 0 .. AncestryMaxSlot, at
\* most AncestryMaxEvents distinct events.
AncestryMaxSlot == 5

AncestryMaxEvents == 5

\* SpecDetector (both event sources, one slot and one signature per vote
\* event): slots are 0 .. DetectorMaxSlot, at most DetectorMaxEvents distinct
\* block-production events, at most DetectorMaxVotes votes processed.
DetectorMaxSlot == 5

DetectorMaxEvents == 3

DetectorMaxVotes == 5

\* SpecLoop (both event sources, which can end): slots are 0 .. LoopMaxSlot,
\* at most LoopMaxEvents distinct block-production events, at most
\* LoopMaxVotes votes processed.
LoopMaxSlot == 2

LoopMaxEvents == 2

LoopMaxVotes == 2

\* SpecIncident (both event sources, side channels that can fail): slots are
\* 0 .. IncidentMaxSlot, at most IncidentMaxEvents distinct block-production
\* events, at most IncidentMaxVotes votes processed.
IncidentMaxSlot == 3

IncidentMaxEvents == 2

IncidentMaxVotes == 3

\* A vote event carries at most MaxVoteLen slots.
MaxVoteLen == 2

\* Signatures of vote transactions are 1 .. MaxSig.
MaxSig == 2

Validators == {"v1"}

Signatures == 1 .. MaxSig

\* Option::None of root_slot and of last_voted_slot.
None == -1

(* -------------------------------- helpers ------------------------------ *)

Min(S) == CHOOSE x \in S : \A y \in S : x <= y

Max(S) == CHOOSE x \in S : \A y \in S : x >= y

RECURSIVE Pow2(_)
Pow2(n) == IF n = 0 THEN 1 ELSE 2 * Pow2(n - 1)

RECURSIVE SeqsUpTo(_, _)
SeqsUpTo(S, n) ==
    IF n = 0 THEN {<<>>}
    ELSE LET shorter == SeqsUpTo(S, n - 1)
         IN  shorter \cup {Append(s, x) : s \in shorter, x \in S}

\* The elements of a set as a sequence, largest first (sort(); reverse()).
RECURSIVE Descending(_)
Descending(S) ==
    IF S = {} THEN <<>> ELSE <<Max(S)>> \o Descending(S \ {Max(S)})

(* ------------------------------- Lockout ------------------------------- *)

\* Lockout::default()
LockoutDefault == [slot |-> 0, confirmation_count |-> 0]

\* Lockout::new(slot)
LockoutNew(slot) == [slot |-> slot, confirmation_count |-> 1]

\* Lockout::last_locked_out_slot(): slot + INITIAL_LOCKOUT ^ confirmation_count
last_locked_out_slot(l) == l.slot + Pow2(l.confirmation_count)

\* Lockout::is_locked_out_at_slot()
is_locked_out_at_slot(l, slot) == last_locked_out_slot(l) >= slot

\* Signature::default()
SignatureDefault == 0

(* -------------------------------- Tower -------------------------------- *)

\* One stack entry: (Lockout, Signature).
Vote(lockout, signature) == [lockout |-> lockout, signature |-> signature]

\* Tower::default(): MAX_LOCKOUT_HISTORY zero-valued entries, no root.
TowerDefault ==
    [votes        |-> [i \in 1 .. MAX_LOCKOUT_HISTORY |->
                          Vote(LockoutDefault, SignatureDefault)],
     root_slot    |-> None,
     vote_history |-> <<>>]

\* Tower::last_voted_slot()
last_voted_slot(tower) ==
    IF tower.votes = <<>> THEN None
    ELSE tower.votes[Len(tower.votes)].lockout.slot

\* pop_expired_votes removing every entry that is not locked out at the next
\* vote slot, wherever it is in the stack.
pop_expired_votes_anywhere(votes, next_vote_slot) ==
    LET is_locked(v) == is_locked_out_at_slot(v.lockout, next_vote_slot)
    IN  SelectSeq(votes, is_locked)

\* Tower::pop_expired_votes()
RECURSIVE pop_expired_votes(_, _)
pop_expired_votes(votes, next_vote_slot) ==
    IF votes = <<>> THEN votes
    ELSE IF ~is_locked_out_at_slot(votes[Len(votes)].lockout, next_vote_slot)
         THEN pop_expired_votes(SubSeq(votes, 1, Len(votes) - 1), next_vote_slot)
         ELSE votes

\* double_lockouts with >= for > in its comparison.
double_lockouts_eager(votes) ==
    LET stack_depth == Len(votes)
    IN  [i \in 1 .. Len(votes) |->
            IF stack_depth >= (i - 1) + votes[i].lockout.confirmation_count
            THEN Vote([slot |-> votes[i].lockout.slot,
                       confirmation_count |->
                           votes[i].lockout.confirmation_count + 1],
                      votes[i].signature)
            ELSE votes[i]]

\* Tower::double_lockouts(); i is 1-based here, 0-based in the source.
double_lockouts(votes) ==
    LET stack_depth == Len(votes)
    IN  [i \in 1 .. Len(votes) |->
            IF stack_depth > (i - 1) + votes[i].lockout.confirmation_count
            THEN Vote([slot |-> votes[i].lockout.slot,
                       confirmation_count |->
                           votes[i].lockout.confirmation_count + 1],
                      votes[i].signature)
            ELSE votes[i]]

\* The report text of process_vote_slot, field by field.
write_incident_report(tower, votes, address, vote_slot, signature, anc) ==
    LET root_slot    == tower.root_slot
        last_lockout == votes[Len(votes)].lockout
        next_vote_ancestors    == {s \in anc[vote_slot] : s >= root_slot}
        lockout_slot_ancestors == {s \in anc[last_lockout.slot] : s >= root_slot}
        common_ancestors == next_vote_ancestors \cap lockout_slot_ancestors
    IN  [validator         |-> address,
         signature         |-> signature,
         vote_slot         |-> vote_slot,
         root_slot         |-> root_slot,
         last_lockout_slot |-> last_locked_out_slot(last_lockout),
         tower             |-> votes,
         vote_fork         |-> Descending(next_vote_ancestors \ common_ancestors),
         lockout_fork      |-> Descending(lockout_slot_ancestors \ common_ancestors),
         common            |-> Descending(common_ancestors),
         history           |-> tower.vote_history]

\* Option<Incident>::None
NoIncident == [validator |-> "none"]

\* lockout_check without the test that root_slot is a key of slot_ancestors.
lockout_check_unknown_root(tower, votes, address, vote_slot, signature, anc) ==
    IF tower.root_slot # None
    THEN IF vote_slot \in DOMAIN anc
         THEN IF votes # <<>>
              THEN IF votes[Len(votes)].lockout.slot \notin DOMAIN anc
                   THEN NoIncident
                   ELSE IF votes[Len(votes)].lockout.slot \notin anc[vote_slot]
                        THEN write_incident_report(tower, votes, address,
                                                   vote_slot, signature, anc)
                        ELSE NoIncident
              ELSE NoIncident
         ELSE NoIncident
    ELSE NoIncident

\* The violation check of process_vote_slot, on the stack left by
\* pop_expired_votes.
lockout_check(tower, votes, address, vote_slot, signature, anc) ==
    IF tower.root_slot # None
    THEN IF tower.root_slot \notin DOMAIN anc
         THEN NoIncident
         ELSE IF vote_slot \in DOMAIN anc
              THEN IF votes # <<>>
                   THEN IF votes[Len(votes)].lockout.slot \notin DOMAIN anc
                        THEN NoIncident
                        ELSE IF votes[Len(votes)].lockout.slot \notin anc[vote_slot]
                             THEN write_incident_report(tower, votes, address,
                                                        vote_slot, signature, anc)
                             ELSE NoIncident
                   ELSE NoIncident
              ELSE NoIncident
    ELSE NoIncident

\* push_vote without the eviction of the front entry.
push_vote_no_eviction(tower, votes, vote_slot, signature) ==
    [votes        |-> Append(votes, Vote(LockoutNew(vote_slot), signature)),
     root_slot    |-> tower.root_slot,
     vote_history |-> tower.vote_history]

\* push_vote with root_slot taken from the back of the stack (pop_back for
\* pop_front).
push_vote_root_from_back(tower, votes, vote_slot, signature) ==
    LET full == Len(votes) = MAX_LOCKOUT_HISTORY
        kept == IF full THEN SubSeq(votes, 2, Len(votes)) ELSE votes
    IN  [votes        |-> Append(kept, Vote(LockoutNew(vote_slot), signature)),
         root_slot    |-> IF full THEN votes[Len(votes)].lockout.slot
                          ELSE tower.root_slot,
         vote_history |-> tower.vote_history]

\* push_vote with the new vote put at the front of the stack (push_front for
\* push_back).
push_vote_at_front(tower, votes, vote_slot, signature) ==
    LET full == Len(votes) = MAX_LOCKOUT_HISTORY
        kept == IF full THEN SubSeq(votes, 2, Len(votes)) ELSE votes
    IN  [votes        |-> <<Vote(LockoutNew(vote_slot), signature)>> \o kept,
         root_slot    |-> IF full THEN votes[1].lockout.slot ELSE tower.root_slot,
         vote_history |-> tower.vote_history]

\* The stack maintenance of process_vote_slot: evict the front entry of a
\* full stack into root_slot, then push the new vote.
push_vote(tower, votes, vote_slot, signature) ==
    LET full == Len(votes) = MAX_LOCKOUT_HISTORY
        kept == IF full THEN SubSeq(votes, 2, Len(votes)) ELSE votes
    IN  [votes        |-> Append(kept, Vote(LockoutNew(vote_slot), signature)),
         root_slot    |-> IF full THEN votes[1].lockout.slot ELSE tower.root_slot,
         vote_history |-> tower.vote_history]

\* process_vote_slot with the violation check made before the expire step,
\* on the stack as the call found it.
process_vote_slot_check_first(tower, address, vote_slot, signature, anc) ==
    LET expired == pop_expired_votes(tower.votes, vote_slot)
        maybe_incident ==
            lockout_check(tower, tower.votes, address, vote_slot, signature, anc)
        pushed == push_vote(tower, expired, vote_slot, signature)
    IN  [tower |-> [pushed EXCEPT !.votes = double_lockouts(pushed.votes)],
         maybe_incident |-> maybe_incident]

\* Tower::process_vote_slot(): the tower after the call and the value returned.
process_vote_slot(tower, address, vote_slot, signature, anc) ==
    LET expired == pop_expired_votes(tower.votes, vote_slot)
        maybe_incident ==
            lockout_check(tower, expired, address, vote_slot, signature, anc)
        pushed == push_vote(tower, expired, vote_slot, signature)
    IN  [tower |-> [pushed EXCEPT !.votes = double_lockouts(pushed.votes)],
         maybe_incident |-> maybe_incident]

(* --------------------------- AncestryTracker --------------------------- *)

\* The parent's entry reset to the empty set whether or not it is present
\* (insert(parent, default) in place of entry(parent).or_default()).
entry_reset(anc, parent) ==
    [k \in DOMAIN anc \cup {parent} |-> IF k = parent THEN {} ELSE anc[k]]

\* slot_ancestors.entry(parent).or_default()
entry_or_default(anc, parent) ==
    [k \in DOMAIN anc \cup {parent} |-> IF k \in DOMAIN anc THEN anc[k] ELSE {}]

\* truncate_ancestors removing the maximum for the minimum.
RECURSIVE truncate_ancestors_drop_largest(_)
truncate_ancestors_drop_largest(ancestors) ==
    IF Cardinality(ancestors) > MAX_TRACKED_ANCESTORS
    THEN truncate_ancestors_drop_largest(ancestors \ {Max(ancestors)})
    ELSE ancestors

\* while ancestors.len() > MAX_TRACKED_ANCESTORS { remove the minimum }
RECURSIVE truncate_ancestors(_)
truncate_ancestors(ancestors) ==
    IF Cardinality(ancestors) > MAX_TRACKED_ANCESTORS
    THEN truncate_ancestors(ancestors \ {Min(ancestors)})
    ELSE ancestors

\* slot_ancestors.insert(slot, ancestors)
insert_slot(anc, slot, ancestors) ==
    [k \in DOMAIN anc \cup {slot} |-> IF k = slot THEN ancestors ELSE anc[k]]

\* slot_to_remove with the last key for the first (keys().next_back()).
slot_to_remove_last(anc) == Max(DOMAIN anc)

\* The key removed by one round of the eviction loop: keys().next() of a
\* BTreeMap is its smallest key.
slot_to_remove(anc) == Min(DOMAIN anc)

\* while slot_ancestors.len() > MAX_TRACKED_SLOTS { remove slot_to_remove }
RECURSIVE evict_slots(_)
evict_slots(anc) ==
    IF Cardinality(DOMAIN anc) > MAX_TRACKED_SLOTS
    THEN evict_slots([k \in DOMAIN anc \ {slot_to_remove(anc)} |-> anc[k]])
    ELSE anc

\* The ancestor set built for a new slot: the parent's set and the parent,
\* cut down to MAX_TRACKED_ANCESTORS.
new_ancestors(anc, parent) ==
    truncate_ancestors(entry_or_default(anc, parent)[parent] \cup {parent})

\* record_slot reading the parent's set without creating an entry for the
\* parent (get(parent) for entry(parent).or_default()).
record_slot_without_parent_entry(anc, slot, parent) ==
    evict_slots(insert_slot(anc, slot, new_ancestors(anc, parent)))

\* The slot branch of the event loop, after the assertion has passed.
record_slot(anc, slot, parent) ==
    evict_slots(insert_slot(entry_or_default(anc, parent), slot,
                            new_ancestors(anc, parent)))

(* ----------------------------- vote handling --------------------------- *)

\* sort_slots leaving the list in the order received (no sort_unstable()).
sort_slots_keep_order(slots) == slots

\* vote.slots.sort_unstable()
RECURSIVE sort_slots(_)
sort_slots(slots) ==
    IF slots = <<>> THEN <<>>
    ELSE LET m    == Min({slots[i] : i \in 1 .. Len(slots)})
             at   == Min({i \in 1 .. Len(slots) : slots[i] = m})
             rest == SubSeq(slots, 1, at - 1) \o SubSeq(slots, at + 1, Len(slots))
         IN  <<m>> \o sort_slots(rest)

\* dedup_slots keeping every element (no dedup()).
dedup_slots_keep_all(slots) == slots

\* vote.slots.dedup(): drops each element equal to the one before it.
dedup_slots(slots) ==
    LET keep == {i \in 1 .. Len(slots) : i = 1 \/ slots[i] # slots[i - 1]}
        F[i \in 0 .. Len(slots)] ==
            IF i = 0 THEN <<>>
            ELSE IF i \in keep THEN Append(F[i - 1], slots[i]) ELSE F[i - 1]
    IN  F[Len(slots)]

\* for pair in vote.slots.chunks_exact(2) { if pair[0] >= pair[1] { panic } }
invalid_vote_pair(slots) ==
    \E c \in 1 .. (Len(slots) \div 2) : slots[2 * c - 1] >= slots[2 * c]

\* filter_new_votes with >= for > in its comparison.
filter_new_votes_inclusive(tower, slots) ==
    LET is_new(slot) == \/ last_voted_slot(tower) = None
                        \/ slot >= last_voted_slot(tower)
    IN  SelectSeq(slots, is_new)

\* The new_votes filter: slots later than the tower's last voted slot.
filter_new_votes(tower, slots) ==
    LET is_new(slot) == \/ last_voted_slot(tower) = None
                        \/ slot > last_voted_slot(tower)
    IN  SelectSeq(slots, is_new)

\* record_vote_signature removing the matching entry as well (0..=position
\* for 0..position).
record_vote_signature_drop_match(tower, signature, new_votes) ==
    LET pushed == Append(tower.vote_history,
                         [signature |-> signature, slots |-> new_votes])
        first_vote_signature == tower.votes[1].signature
        found == {i \in 1 .. Len(pushed) :
                     pushed[i].signature = first_vote_signature}
        position == IF tower.votes = <<>> \/ found = {} THEN 0 ELSE Min(found)
    IN  [tower EXCEPT !.vote_history = SubSeq(pushed, position + 1, Len(pushed))]

\* The history push and pruning done before the slots are processed
\* (Tower::record_vote_signature in src/tower.rs).
record_vote_signature(tower, signature, new_votes) ==
    LET pushed == Append(tower.vote_history,
                         [signature |-> signature, slots |-> new_votes])
        first_vote_signature == tower.votes[1].signature
        found == {i \in 1 .. Len(pushed) :
                     pushed[i].signature = first_vote_signature}
        position == IF tower.votes = <<>> \/ found = {} THEN 0 ELSE Min(found) - 1
    IN  [tower EXCEPT !.vote_history = SubSeq(pushed, position + 1, Len(pushed))]

\* What the environment does to the side channels while one vote event is
\* handled: whether the webhook post of Notifier::send succeeds, and whether
\* File::create and the writeln! into the file succeed.
Deliveries ==
    [send : BOOLEAN, write : {"ok", "create_failed", "write_failed"}]

DeliveryOk == [send |-> TRUE, write |-> "ok"]

\* format!("{}: Lockout violation detected [{}]", vote_account_address, signature)
violation_msg(address, signature) ==
    <<address, "Lockout violation detected", signature>>

\* format!("incident-{}-{}.log", vote_account_address, signature)
report_filename(address, signature) == <<"incident", address, signature>>

\* A file that File::create has created or truncated and that nothing was
\* written to.
EmptyFile == [validator |-> "empty"]

\* Notifier::send with one webhook configured: a failed post is printed to
\* stderr and nothing is returned to the caller.
notifier_send(msg, io) == [op |-> "send", msg |-> msg, delivered |-> io.send]

\* File::create(&filename).and_then(writeln!).unwrap_or_else(error!): the
\* files after the attempt.
write_report(fs, filename, incident, io) ==
    IF io.write = "create_failed" THEN fs
    ELSE [f \in DOMAIN fs \cup {filename} |->
             IF f = filename
             THEN (IF io.write = "ok" THEN incident ELSE EmptyFile)
             ELSE fs[f]]

\* surface_incident leaving the loop body when the report file could not be
\* written, before incident_counter is incremented.
surface_incident_stop_on_failure(fs, address, signature, incident, io) ==
    LET msg      == violation_msg(address, signature)
        filename == report_filename(address, signature)
    IN  [files    |-> write_report(fs, filename, incident, io),
         surfaced |-> <<notifier_send(msg, io),
                        [op |-> "error", msg |-> msg, incident |-> incident],
                        [op |-> "write", filename |-> filename,
                         result |-> io.write]>>
                      \o (IF io.write = "ok" THEN <<[op |-> "count"]>> ELSE <<>>)]

\* The body of if let Some(incident) = ..: alert, error-level log line,
\* report file, incident_counter += 1, in program order.
surface_incident(fs, address, signature, incident, io) ==
    LET msg      == violation_msg(address, signature)
        filename == report_filename(address, signature)
    IN  [files    |-> write_report(fs, filename, incident, io),
         surfaced |-> <<notifier_send(msg, io),
                        [op |-> "error", msg |-> msg, incident |-> incident],
                        [op |-> "write", filename |-> filename,
                         result |-> io.write],
                        [op |-> "count"]>>]

\* for slot in new_votes { tower.process_vote_slot(..) }, with a record of
\* each call: the tower before and after it, the stack its expire step left,
\* the value it returned and what was done with an Incident before the next
\* call.
RECURSIVE process_new_votes(_, _, _, _, _, _, _, _)
process_new_votes(tower, fs, address, new_votes, signature, anc, io, log) ==
    IF new_votes = <<>> THEN [tower |-> tower, files |-> fs, calls |-> log]
    ELSE LET r == process_vote_slot(tower, address, Head(new_votes), signature, anc)
             s == IF r.maybe_incident # NoIncident
                  THEN surface_incident(fs, address, signature,
                                        r.maybe_incident, io)
                  ELSE [files |-> fs, surfaced |-> <<>>]
         IN  process_new_votes(r.tower, s.files, address, Tail(new_votes),
                 signature, anc, io,
                 Append(log, [validator      |-> address,
                              slot           |-> Head(new_votes),
                              signature      |-> signature,
                              before         |-> tower,
                              expired        |->
                                  pop_expired_votes(tower.votes, Head(new_votes)),
                              after          |-> r.tower,
                              maybe_incident |-> r.maybe_incident,
                              surfaced       |-> s.surfaced]))

\* The number of incident_counter += 1 executed by the calls of log.
IncidentCount(log) ==
    Cardinality({<<i, j>> \in (1 .. Len(log)) \X (1 .. 4) :
                    /\ j <= Len(log[i].surfaced)
                    /\ log[i].surfaced[j].op = "count"})

(* --------------------------------- state ------------------------------- *)

NoEvent == [kind |-> "none"]

Init ==
    /\ slot_ancestors = [k \in {} |-> {}]
    /\ towers = [a \in {} |-> TowerDefault]
    /\ processed_vote_counter = 0
    /\ incident_counter = 0
    /\ panic = "none"
    /\ calls = <<>>
    /\ event = NoEvent
    /\ reported = {}
    /\ inserted = <<>>
    /\ slots_stream = "open"
    /\ votes_stream = "open"
    /\ pc = "loop"
    /\ unsubscribed = <<>>
    /\ files = [f \in {} |-> NoIncident]

\* Some(slot_info) = slots.next()
SlotEvent(slot, parent) ==
    /\ panic = "none"
    /\ pc = "loop"
    /\ slots_stream = "open"
    /\ IF slot \in DOMAIN slot_ancestors
       THEN /\ panic' = "slot already present in slot_ancestors"
            /\ event' = [kind |-> "slot", slot |-> slot, parent |-> parent,
                         duplicate |-> TRUE, before |-> slot_ancestors]
            /\ UNCHANGED <<slot_ancestors, reported, inserted>>
       ELSE LET order == inserted
                           \o (IF parent \in DOMAIN slot_ancestors
                               THEN <<>> ELSE <<parent>>)
                           \o <<slot>>
                is_kept(k) == k \in DOMAIN record_slot(slot_ancestors, slot, parent)
            IN  /\ slot_ancestors' = record_slot(slot_ancestors, slot, parent)
                /\ event' = [kind |-> "slot", slot |-> slot, parent |-> parent,
                             duplicate |-> FALSE, before |-> slot_ancestors,
                             ancestors |-> new_ancestors(slot_ancestors, parent),
                             order |-> order]
                /\ reported' = reported \cup {<<slot, parent>>}
                /\ inserted' = SelectSeq(order, is_kept)
                /\ UNCHANGED panic
    /\ calls' = <<>>
    /\ UNCHANGED <<towers, processed_vote_counter, incident_counter, files>>
    /\ UNCHANGED loop_vars

\* towers.entry(vote_account_address).or_default(): the tower of address a,
\* for a validator not seen yet the tower its first vote event creates.
TowerOf(a) == IF a \in DOMAIN towers THEN towers[a] ELSE TowerDefault

\* The vote branch of the event loop on one tower: the panic it raises if
\* any, the tower, the report files and the counters it leaves, the slots it
\* took as new and the record of its process_vote_slot calls.
handle_vote(tower, fs, processed, incidents, address, signature, vote_slots, anc, io) ==
    LET slots     == dedup_slots(sort_slots(vote_slots))
        new_votes == filter_new_votes(tower, slots)
        done      == process_new_votes(
                         record_vote_signature(tower, signature, new_votes),
                         fs, address, new_votes, signature, anc, io, <<>>)
        untouched == [panic |-> "none", tower |-> tower, files |-> fs,
                      processed_vote_counter |-> processed,
                      incident_counter |-> incidents,
                      new_votes |-> new_votes, calls |-> <<>>]
    IN  IF invalid_vote_pair(slots)
        THEN [untouched EXCEPT !.panic = "Invalid vote pair"]
        ELSE IF new_votes = <<>>
        THEN untouched
        ELSE [panic |-> "none", tower |-> done.tower, files |-> done.files,
              processed_vote_counter |-> processed + Len(new_votes),
              incident_counter |-> incidents + IncidentCount(done.calls),
              new_votes |-> new_votes, calls |-> done.calls]

\* Some(mut vote) = votes.next()
VoteEvent(address, signature, vote_slots, io) ==
    /\ panic = "none"
    /\ pc = "loop"
    /\ votes_stream = "open"
    /\ \E done \in {handle_vote(TowerOf(address), files,
                                 processed_vote_counter, incident_counter,
                                 address, signature, vote_slots,
                                 slot_ancestors, io)} :
       LET tower == TowerOf(address)
       IN  /\ event' = [kind |-> "vote", address |-> address,
                        slots |-> Len(vote_slots),
                        new |-> Len(done.new_votes), io |-> io,
                        pruned |-> IF done.new_votes = <<>> THEN 0
                                   ELSE Len(tower.vote_history) + 1
                                            - Len(done.tower.vote_history),
                        stale |-> \A i \in 1 .. Len(vote_slots) :
                                     vote_slots[i] <= last_voted_slot(tower)]
           /\ panic' = done.panic
           /\ towers' = [a \in DOMAIN towers \cup {address} |->
                            IF a = address THEN done.tower ELSE towers[a]]
           /\ files' = done.files
           /\ calls' = done.calls
           /\ processed_vote_counter' = done.processed_vote_counter
           /\ incident_counter' = done.incident_counter
    /\ UNCHANGED <<slot_ancestors, reported, inserted>>
    /\ UNCHANGED loop_vars

\* slots.next() returns None from now on: the block-production subscription
\* has ended.
SlotsEnd ==
    /\ panic = "none"
    /\ pc = "loop"
    /\ slots_stream = "open"
    /\ slots_stream' = "exhausted"
    /\ event' = [kind |-> "end", source |-> "slots"]
    /\ calls' = <<>>
    /\ UNCHANGED <<slot_ancestors, towers, processed_vote_counter,
                   incident_counter, panic, reported, inserted,
                   votes_stream, pc, unsubscribed, files>>

\* votes.next() returns None from now on: the vote subscription has ended.
VotesEnd ==
    /\ panic = "none"
    /\ pc = "loop"
    /\ votes_stream = "open"
    /\ votes_stream' = "exhausted"
    /\ event' = [kind |-> "end", source |-> "votes"]
    /\ calls' = <<>>
    /\ UNCHANGED <<slot_ancestors, towers, processed_vote_counter,
                   incident_counter, panic, reported, inserted,
                   slots_stream, pc, unsubscribed, files>>

\* LoopExit taking the else branch as soon as either stream has ended.
LoopExitEither ==
    /\ panic = "none"
    /\ pc = "loop"
    /\ slots_stream = "exhausted" \/ votes_stream = "exhausted"
    /\ pc' = "done"
    /\ unsubscribed' = unsubscribed \o <<"slots", "votes">>
    /\ UNCHANGED <<slot_ancestors, towers, processed_vote_counter,
                   incident_counter, panic, calls, event, reported, inserted,
                   slots_stream, votes_stream, files>>

\* else => break, then slots_unsubscribe().await and votes_unsubscribe().await:
\* the else branch of select! runs when the pattern of every other branch
\* has failed, that is when both streams have returned None.
LoopExit ==
    /\ panic = "none"
    /\ pc = "loop"
    /\ slots_stream = "exhausted" /\ votes_stream = "exhausted"
    /\ pc' = "done"
    /\ unsubscribed' = unsubscribed \o <<"slots", "votes">>
    /\ UNCHANGED <<slot_ancestors, towers, processed_vote_counter,
                   incident_counter, panic, calls, event, reported, inserted,
                   slots_stream, votes_stream, files>>

\* A block-production event {slot, parent} with slot, parent in S and
\* parent < slot (a block's parent is an earlier slot), while fewer than n
\* distinct events have been reported.
SlotEvents(S, n) ==
    \E slot \in S, parent \in S :
        /\ parent < slot
        /\ Cardinality(reported \cup {<<slot, parent>>}) <= n
        /\ SlotEvent(slot, parent)

\* A vote event with at most len slots, all in S, and a signature in Sigs,
\* while fewer than n votes have been processed.
VoteEvents(S, len, Sigs, n) ==
    \E address \in Validators, signature \in Sigs,
       vote_slots \in SeqsUpTo(S, len) :
        /\ processed_vote_counter < n
        /\ VoteEvent(address, signature, vote_slots, DeliveryOk)

\* The same, with every behaviour of the side channels.
VoteEventsIO(S, len, Sigs, n) ==
    \E address \in Validators, signature \in Sigs,
       vote_slots \in SeqsUpTo(S, len), io \in Deliveries :
        /\ processed_vote_counter < n
        /\ VoteEvent(address, signature, vote_slots, io)

Next ==
    \/ SlotEvents(0 .. MaxSlot, MaxSlotEvents)
    \/ VoteEvents(0 .. MaxSlot, MaxVoteLen, Signatures, MaxVotes)

Spec == Init /\ [][Next]_vars

\* The vote branch alone, with vote events of up to MaxVoteLen slots.
NextVotes == VoteEvents(0 .. MaxSlot, MaxVoteLen, Signatures, MaxVotes)

SpecVotes == Init /\ [][NextVotes]_vars

\* The vote branch alone, over more slots and votes, with single-slot vote
\* events.
NextTower == VoteEvents(0 .. TowerMaxSlot, 1, Signatures, TowerMaxVotes)

SpecTower == Init /\ [][NextTower]_vars

\* The slot branch alone, over more slots and events.
NextAncestry == SlotEvents(0 .. AncestryMaxSlot, AncestryMaxEvents)

SpecAncestry == Init /\ [][NextAncestry]_vars

\* Both branches, over more slots, with single-slot vote events.
NextDetector ==
    \/ SlotEvents(0 .. DetectorMaxSlot, DetectorMaxEvents)
    \/ VoteEvents(0 .. DetectorMaxSlot, 1, {1}, DetectorMaxVotes)

SpecDetector == Init /\ [][NextDetector]_vars

\* Both branches, with vote events of up to MaxVoteLen slots and every
\* behaviour of the side channels.
NextIncident ==
    \/ SlotEvents(0 .. IncidentMaxSlot, IncidentMaxEvents)
    \/ VoteEventsIO(0 .. IncidentMaxSlot, MaxVoteLen, {1}, IncidentMaxVotes)

SpecIncident == Init /\ [][NextIncident]_vars

\* The whole of main(): both branches, the end of either subscription and
\* the exit from the loop.  Once both streams have ended every select! takes
\* the else branch, so the exit is taken: weak fairness on LoopExit.
NextLoop ==
    \/ SlotEvents(0 .. LoopMaxSlot, LoopMaxEvents)
    \/ VoteEvents(0 .. LoopMaxSlot, 1, {1}, LoopMaxVotes)
    \/ SlotsEnd
    \/ VotesEnd
    \/ LoopExit

SpecLoop == Init /\ [][NextLoop]_vars /\ WF_vars(LoopExit)

(* ------------------------- observing the handlers --------------------- *)

Call(i) == calls[i]

Calls == 1 .. Len(calls)

\* The top entry of the stack the expire step of call c left.
Top(c) == c.expired[Len(c.expired)].lockout

Raised(c) == c.maybe_incident # NoIncident

\* root_slot is set, and the tracker knows the ancestry of root_slot, of the
\* vote slot and of the post-expiry top entry's slot.
AllKnown(c) ==
    /\ c.before.root_slot # None
    /\ c.before.root_slot \in DOMAIN slot_ancestors
    /\ c.slot \in DOMAIN slot_ancestors
    /\ c.expired # <<>>
    /\ Top(c).slot \in DOMAIN slot_ancestors

\* The ancestors of slot in the parent relation the block-production events
\* have reported (parents are earlier slots, so the recursion ends).
RECURSIVE ReportedAncestors(_)
ReportedAncestors(slot) ==
    LET parents == {e[2] : e \in {r \in reported : r[1] = slot}}
    IN  parents \cup UNION {ReportedAncestors(p) : p \in parents}

(* --------------------------------- C1 ---------------------------------- *)

\* C1: a process_vote_slot call made with root_slot set and the ancestry of
\* root_slot, of the vote slot and of the post-expiry top entry's slot all
\* known returns an Incident exactly when the top entry's slot is not in the
\* tracked ancestors of the vote slot; for a descendant it returns none.
C1_IncidentIffTopNotAncestor ==
    \A i \in Calls :
        AllKnown(Call(i)) =>
            (Raised(Call(i)) <=> Top(Call(i)).slot \notin slot_ancestors[Call(i).slot])

\* A checked call that raised an Incident after its expire step had popped
\* an entry.
C1_Witness ==
    \E i \in Calls :
        /\ AllKnown(Call(i))
        /\ Raised(Call(i))
        /\ Len(Call(i).expired) < Len(Call(i).before.votes)

\* A checked call for a descendant of the top slot, which returned none.
C1_WitnessDescendant ==
    \E i \in Calls :
        /\ AllKnown(Call(i))
        /\ ~Raised(Call(i))
        /\ Top(Call(i)).slot \in slot_ancestors[Call(i).slot]

(* --------------------------------- C2 ---------------------------------- *)

C3_StackWithinCapacity ==
    /\ \A a \in DOMAIN towers : Len(towers[a].votes) <= MAX_LOCKOUT_HISTORY
    /\ \A i \in Calls : Len(Call(i).after.votes) <= MAX_LOCKOUT_HISTORY

\* A call that found the stack full of votes it had registered itself and
\* none of them expired.
C3_Witness ==
    \E i \in Calls :
        /\ Len(Call(i).expired) = MAX_LOCKOUT_HISTORY
        /\ \A j \in 1 .. Len(Call(i).expired) :
               Call(i).expired[j].signature # SignatureDefault
        /\ Len(Call(i).after.votes) = MAX_LOCKOUT_HISTORY

(* --------------------------------- C4 ---------------------------------- *)

\* root_slot goes from old to new: never from set to unset, never down.
RootAdvances(old, new) == old # None => (new # None /\ new >= old)

\* One process_vote_slot call: root_slot advances, and changes only if the
\* stack was full after the expire step, to the slot of its front entry.
RootCall(c) ==
    /\ RootAdvances(c.before.root_slot, c.after.root_slot)
    /\ c.after.root_slot # c.before.root_slot =>
           /\ Len(c.expired) = MAX_LOCKOUT_HISTORY
           /\ c.after.root_slot = c.expired[1].lockout.slot

\* One step of the coordinator: every call of the step satisfies RootCall,
\* and a tower's root_slot advances and changes only by a call on that tower.
RootStep ==
    /\ \A i \in 1 .. Len(calls') : RootCall(calls'[i])
    /\ \A a \in DOMAIN towers' :
           /\ RootAdvances(TowerOf(a).root_slot, towers'[a].root_slot)
           /\ towers'[a].root_slot # TowerOf(a).root_slot =>
                  \E i \in 1 .. Len(calls') :
                      /\ calls'[i].validator = a
                      /\ calls'[i].after.root_slot = towers'[a].root_slot
                      /\ calls'[i].after.root_slot # calls'[i].before.root_slot
    /\ DOMAIN towers \subseteq DOMAIN towers'

\* C4: across the events handled by the coordinator a Tower's root_slot
\* never decreases and never goes from set to unset; it changes only inside
\* a process_vote_slot call whose stack is full after the expire step, and
\* then becomes the slot of the evicted front entry.
C4_RootMonotone == [][RootStep]_vars

\* A call that moved root_slot from one slot to a later one.
C4_Witness ==
    \E i \in Calls :
        /\ Call(i).before.root_slot # None
        /\ Call(i).after.root_slot > Call(i).before.root_slot

(* --------------------------------- C5 ---------------------------------- *)

\* The stack of call c as the escalation step found it: the entries the
\* expire step left, less the evicted front entry, and the new vote.
BeforeEscalation(c) ==
    Append(IF Len(c.expired) = MAX_LOCKOUT_HISTORY
           THEN Tail(c.expired) ELSE c.expired,
           Vote(LockoutNew(c.slot), c.signature))

Count(votes, i) == votes[i].lockout.confirmation_count

\* Each entry's confirmation_count rose by 0 or 1 in call c.
RaisedByAtMostOne(c) ==
    /\ Len(c.after.votes) = Len(BeforeEscalation(c))
    /\ \A i \in 1 .. Len(c.after.votes) :
           /\ c.after.votes[i].lockout.slot = BeforeEscalation(c)[i].lockout.slot
           /\ Count(c.after.votes, i) - Count(BeforeEscalation(c), i) \in {0, 1}

\* C5 as stated: after every process_vote_slot call, for every 0-based
\* position i of a stack of depth D, confirmation_count(i) <= D - i, and no
\* count rose by more than 1 in the call.  (Positions are 1-based here.)
C5_CountWithinDepth ==
    \A k \in Calls :
        /\ RaisedByAtMostOne(Call(k))
        /\ \A i \in 1 .. Len(Call(k).after.votes) :
               Count(Call(k).after.votes, i)
                   <= Len(Call(k).after.votes) - (i - 1)

\* C5 amended: after every process_vote_slot call no confirmation_count rose
\* by more than 1, and every entry whose count the call raised satisfies
\* confirmation_count(i) <= D - i; an entry the call did not raise keeps its
\* count, which exceeds D - i when the expire step popped entries above it.
C5_RaisedCountWithinDepth ==
    \A k \in Calls :
        /\ RaisedByAtMostOne(Call(k))
        /\ \A i \in 1 .. Len(Call(k).after.votes) :
               Count(Call(k).after.votes, i) > Count(BeforeEscalation(Call(k)), i)
                   => Count(Call(k).after.votes, i)
                          <= Len(Call(k).after.votes) - (i - 1)

\* A call whose expire step popped two entries and left below them an entry
\* that the call did not raise and whose count is above D - i.
C5_Witness ==
    \E k \in Calls :
        /\ Len(Call(k).expired) + 2 <= Len(Call(k).before.votes)
        /\ \E i \in 1 .. Len(Call(k).after.votes) :
               /\ Count(Call(k).after.votes, i) = Count(BeforeEscalation(Call(k)), i)
               /\ Count(Call(k).after.votes, i)
                      > Len(Call(k).after.votes) - (i - 1)

(* --------------------------------- C6 ---------------------------------- *)

\* C6: in every reachable Tower state the slots of the stack entries are
\* strictly ascending from the front (oldest) to the back (newest) entry.
C6_StackStrictlyAscending ==
    \A a \in DOMAIN towers :
        \A i, j \in 1 .. Len(towers[a].votes) :
            i < j => towers[a].votes[i].lockout.slot < towers[a].votes[j].lockout.slot

(* --------------------------------- C7 ---------------------------------- *)

\* C7: a block-production event for a slot already present in the tracker is
\* not fatal: the coordinator keeps running and the ancestor set recorded
\* for that slot is the one it had before.
C7_DuplicateSlotNonFatal ==
    (event.kind = "slot" /\ event.duplicate) =>
        /\ panic = "none"
        /\ event.slot \in DOMAIN slot_ancestors
        /\ slot_ancestors[event.slot] = event.before[event.slot]

(* --------------------------------- C8 ---------------------------------- *)

\* The n largest elements of S (all of S when it has at most n).
LargestOf(S, n) == {x \in S : Cardinality({y \in S : y > x}) < n}

\* The last event was a block-production event for a slot not yet present.
NewSlotHandled == event.kind = "slot" /\ ~event.duplicate

\* ancestors(parent) \cup {parent}, as the tracker stood before the event.
ParentUnion ==
    (IF event.parent \in DOMAIN event.before
     THEN event.before[event.parent] ELSE {}) \cup {event.parent}

\* C8: for a new slot the tracker records ancestors(parent) \cup {parent}
\* cut down to its MAX_TRACKED_ANCESTORS largest values, and every entry of
\* the tracker holds at most MAX_TRACKED_ANCESTORS ancestors.
C8_AncestorsCapped ==
    /\ NewSlotHandled =>
           /\ event.ancestors = LargestOf(ParentUnion, MAX_TRACKED_ANCESTORS)
           /\ event.slot \in DOMAIN slot_ancestors =>
                  slot_ancestors[event.slot] = event.ancestors
    /\ \A k \in DOMAIN slot_ancestors :
           Cardinality(slot_ancestors[k]) <= MAX_TRACKED_ANCESTORS

\* A new slot whose parent's set and parent exceed the cap, and which the
\* tracker still holds after the event.
C8_Witness ==
    /\ NewSlotHandled
    /\ Cardinality(ParentUnion) > MAX_TRACKED_ANCESTORS
    /\ event.slot \in DOMAIN slot_ancestors

(* --------------------------------- C9 ---------------------------------- *)

\* The keys the handler of the last block-production event evicted.
Evicted == {event.order[i] : i \in 1 .. Len(event.order)} \ DOMAIN slot_ancestors

\* C9 as stated: after a block-production event the map holds at most
\* MAX_TRACKED_SLOTS entries and the keys evicted are the oldest-inserted.
C9_EvictsOldestInserted ==
    NewSlotHandled =>
        /\ Cardinality(DOMAIN slot_ancestors) <= MAX_TRACKED_SLOTS
        /\ Evicted = {event.order[i] :
                         i \in 1 .. (Len(event.order) - Cardinality(DOMAIN slot_ancestors))}

\* C9 amended: after a block-production event the map holds at most
\* MAX_TRACKED_SLOTS entries; keys are evicted only to restore the cap, and
\* the keys evicted are the numerically smallest ones, so the map keeps the
\* MAX_TRACKED_SLOTS largest keys with the sets they had.
C9_EvictsSmallestKeys ==
    NewSlotHandled =>
        /\ Cardinality(DOMAIN slot_ancestors) <= MAX_TRACKED_SLOTS
        /\ DOMAIN slot_ancestors =
               LargestOf(DOMAIN event.before \cup {event.parent, event.slot},
                         MAX_TRACKED_SLOTS)
        /\ \A k \in DOMAIN slot_ancestors \cap DOMAIN event.before :
               slot_ancestors[k] = event.before[k]

\* An eviction that kept the oldest-inserted key.
C9_Witness ==
    /\ NewSlotHandled
    /\ Evicted # {}
    /\ event.order[1] \in DOMAIN slot_ancestors

(* --------------------------------- C10 --------------------------------- *)

\* A step that handles a vote event whose slots are all at or below the
\* tower's last voted slot: no process_vote_slot call, and the tower, the
\* counters and the panic state are as before.
StaleVoteStep ==
    (event'.kind = "vote" /\ event'.stale) =>
        /\ calls' = <<>>
        /\ towers'[event'.address] = TowerOf(event'.address)
        /\ \A a \in DOMAIN towers : towers'[a] = towers[a]
        /\ processed_vote_counter' = processed_vote_counter
        /\ incident_counter' = incident_counter
        /\ panic' = panic

\* C10: a vote event whose slots are all less than or equal to the Tower's
\* last_voted_slot() causes no process_vote_slot call and no history push:
\* stack, root_slot, vote history and both counters are unchanged, and no
\* error is raised.
C10_StaleVoteIgnored == [][StaleVoteStep]_vars

\* A vote event with two slots, both at or below the slot of a vote the
\* tower had registered, was handled.
C10_Witness ==
    /\ event.kind = "vote"
    /\ event.stale
    /\ event.slots = 2
    /\ towers[event.address].root_slot # None
    /\ processed_vote_counter > 1

(* --------------------------------- C11 --------------------------------- *)

\* The positions of the history entries of tower that carry the signature of
\* its oldest stack entry.
OldestSignaturePositions(tower) ==
    {i \in 1 .. Len(tower.vote_history) :
        tower.vote_history[i].signature = tower.votes[1].signature}

\* C11: after a vote event has been handled, a Tower's vote history holds no
\* entry older than the entry that carries the signature of the oldest stack
\* entry: when the history has an entry with that signature, its first entry
\* has it.
C11_HistoryFromOldestStackEntry ==
    \A a \in DOMAIN towers :
        (towers[a].votes # <<>> /\ OldestSignaturePositions(towers[a]) # {}) =>
            1 \in OldestSignaturePositions(towers[a])

(* --------------------------------- C12 --------------------------------- *)

\* A Tower with a genuinely empty stack (the empty-start form of section 9).
TowerEmpty == [votes |-> <<>>, root_slot |-> None, vote_history |-> <<>>]

\* The stack entries that are not placeholders of Tower::default().
RealEntries(votes) ==
    LET is_real(v) == v.signature # SignatureDefault
    IN  SelectSeq(votes, is_real)

\* The slots the calls of the last vote event registered, in order.
RegisteredSlots == [i \in Calls |-> Call(i).slot]

\* The same slots, with the same signature, registered on an empty-start
\* Tower.
EmptyStartRun ==
    process_new_votes(
        record_vote_signature(TowerEmpty, Call(1).signature, RegisteredSlots),
        files, Call(1).validator, RegisteredSlots, Call(1).signature,
        slot_ancestors, DeliveryOk, <<>>)

\* C12: after a validator's first vote event, the Tower that started with
\* MAX_LOCKOUT_HISTORY placeholders and a Tower that started empty hold the
\* same real stack entries and the same root_slot, and their calls returned
\* an Incident for the same slots.
C12_PlaceholderStartEquivalent ==
    (calls # <<>> /\ Call(1).before.votes = TowerDefault.votes
                  /\ Call(1).before.root_slot = None) =>
        /\ RealEntries(towers[Call(1).validator].votes) = EmptyStartRun.tower.votes
        /\ towers[Call(1).validator].root_slot = EmptyStartRun.tower.root_slot
        /\ \A i \in Calls : Raised(Call(i)) = Raised(EmptyStartRun.calls[i])

(* --------------------------------- C13 --------------------------------- *)

\* The tower that the expire step, the eviction of a full stack's front
\* entry, the push and the escalation leave for call c.
Maintained(c) ==
    LET pushed == push_vote(c.before, pop_expired_votes(c.before.votes, c.slot),
                            c.slot, c.signature)
    IN  [pushed EXCEPT !.votes = double_lockouts(pushed.votes)]

\* C13: a process_vote_slot call made with root_slot unset, or with the
\* ancestry of root_slot, of the vote slot or of the post-expiry top entry's
\* slot unknown (or with the stack emptied by the expire step), returns none;
\* an Incident is built only when the top entry's slot is a key of
\* slot_ancestors, so the lookup of the report builder cannot fail; and every
\* call, checked or not, leaves the stack, root_slot and history that stack
\* maintenance and escalation produce.
C13_UncheckedCallReturnsNone ==
    \A i \in Calls :
        /\ ~AllKnown(Call(i)) => ~Raised(Call(i))
        /\ Raised(Call(i)) => Top(Call(i)).slot \in DOMAIN slot_ancestors
        /\ Call(i).after = Maintained(Call(i))

\* A call with root_slot set but unknown to the tracker, for a known slot of
\* which the known top slot is not an ancestor, returned none and pushed its
\* vote.
C13_Witness ==
    \E i \in Calls :
        /\ Call(i).before.root_slot # None
        /\ Call(i).before.root_slot \notin DOMAIN slot_ancestors
        /\ Call(i).slot \in DOMAIN slot_ancestors
        /\ Call(i).expired # <<>>
        /\ Top(Call(i)).slot \in DOMAIN slot_ancestors
        /\ Top(Call(i)).slot \notin slot_ancestors[Call(i).slot]
        /\ ~Raised(Call(i))
        /\ last_voted_slot(Call(i).after) = Call(i).slot

(* --------------------------------- C14 --------------------------------- *)

BothExhausted == slots_stream = "exhausted" /\ votes_stream = "exhausted"

\* main() has left its loop only with both streams ended, and has then made
\* one unsubscribe call per source; inside the loop it has made none.
ExitOnlyWhenBothExhausted ==
    /\ pc = "done" => BothExhausted /\ unsubscribed = <<"slots", "votes">>
    /\ pc = "loop" => unsubscribed = <<>>

\* C14: the loop of main() ends only when both event sources are exhausted:
\* while a source can still produce an event main() is in its loop and has
\* issued no unsubscribe, an event of the other source is still handled after
\* one source has ended, and once both have ended (and the process has not
\* panicked) the loop exits and issues exactly one unsubscribe to each source.
C14_LoopEndsWhenBothExhausted ==
    /\ []ExitOnlyWhenBothExhausted
    /\ (BothExhausted /\ panic = "none") ~> (pc = "done")

\* main() has left its loop and unsubscribed after handling events of both
\* sources.
C14_Witness ==
    /\ pc = "done"
    /\ unsubscribed = <<"slots", "votes">>
    /\ processed_vote_counter > 0
    /\ DOMAIN slot_ancestors # {}

\* A vote was registered after the block-production stream had ended.
C14_WitnessOtherSource ==
    /\ slots_stream = "exhausted"
    /\ event.kind = "vote"
    /\ calls # <<>>

(* --------------------------------- C15 --------------------------------- *)

\* What the loop body does with the Incident of call c under side-channel
\* behaviour io, in program order.
AllChannels(c, io) ==
    <<[op |-> "send", msg |-> violation_msg(c.validator, c.signature),
       delivered |-> io.send],
      [op |-> "error", msg |-> violation_msg(c.validator, c.signature),
       incident |-> c.maybe_incident],
      [op |-> "write", filename |-> report_filename(c.validator, c.signature),
       result |-> io.write],
      [op |-> "count"]>>

\* A step that handles a vote event: each call that returned an Incident is
\* followed, before the next call, by the alert, the error line, the file
\* write and one increment of incident_counter, and a call that returned
\* none by nothing; whatever the side channels did, the process has not
\* panicked and every new slot of the event was registered.
SurfacedStep ==
    (event'.kind = "vote") =>
        /\ \A i \in 1 .. Len(calls') :
               calls'[i].surfaced =
                   IF Raised(calls'[i]) THEN AllChannels(calls'[i], event'.io)
                   ELSE <<>>
        /\ incident_counter' = incident_counter
               + Cardinality({i \in 1 .. Len(calls') : Raised(calls'[i])})
        /\ panic' = "none"
        /\ Len(calls') = event'.new
        /\ processed_vote_counter' = processed_vote_counter + event'.new

\* C15: every Incident returned by process_vote_slot is surfaced through the
\* alert send, the error-level log line and the report-file write and
\* increments incident_counter by exactly one, before the next slot of the
\* same vote event is registered; a failed alert send or report-file write
\* does not abort processing, and the remaining slots of the event are still
\* registered.
C15_IncidentSurfaced == [][SurfacedStep]_vars

\* An Incident whose alert send and report-file write both failed was
\* counted, and a later slot of the same vote event was registered.
C15_Witness ==
    \E i \in Calls :
        /\ Raised(Call(i))
        /\ ~event.io.send
        /\ event.io.write # "ok"
        /\ i < Len(calls)
        /\ incident_counter > 0

\* A vote of a later vote event was registered after a report-file write had
\* failed.
C15_WitnessLaterEvent ==
    /\ \E f \in DOMAIN files : files[f] = EmptyFile
    /\ event.kind = "vote"
    /\ event.io.write = "ok"
    /\ calls # <<>>

(* --------------------------------- C16 --------------------------------- *)

\* C16: each Incident of the vote event just handled is available, in full,
\* in the report file incident-<validator>-<signature>.log, also when the
\* event produced more than one Incident (every write succeeding).
C16_ReportFilePerIncident ==
    \A i \in Calls :
        (Raised(Call(i)) /\ event.io.write = "ok") =>
            /\ report_filename(Call(i).validator, Call(i).signature) \in DOMAIN files
            /\ files[report_filename(Call(i).validator, Call(i).signature)]
                   = Call(i).maybe_incident

(* --------------------------------- C17 --------------------------------- *)

\* The lockout of stack entry v has expired relative to slot.
Expired(v, slot) == slot > v.lockout.slot + Pow2(v.lockout.confirmation_count)

\* C17: the expire step of every process_vote_slot call removes from the top
\* of the stack exactly the maximal run of entries whose lockout has expired
\* relative to the vote slot: what it leaves is a prefix of the stack, every
\* entry it removed had expired, and the stack it leaves is empty or has a
\* top entry that is still locked out at the vote slot.
C17_ExpirePopsMaximalRun ==
    \A i \in Calls :
        LET before == Call(i).before.votes
            left   == Call(i).expired
        IN  /\ Len(left) <= Len(before)
            /\ left = SubSeq(before, 1, Len(left))
            /\ \A j \in Len(left) + 1 .. Len(before) : Expired(before[j], Call(i).slot)
            /\ left = <<>> \/ ~Expired(left[Len(left)], Call(i).slot)

\* An expire step stopped at an entry that was still locked, under which an
\* entry whose own lockout had expired was left in place.
C17_Witness ==
    \E i \in Calls :
        /\ Call(i).expired # <<>>
        /\ ~Expired(Call(i).expired[Len(Call(i).expired)], Call(i).slot)
        /\ \E j \in 1 .. Len(Call(i).expired) - 1 :
               /\ Expired(Call(i).expired[j], Call(i).slot)
               /\ Call(i).expired[j].signature # SignatureDefault

\* An expire step removed an entry and stopped at one that was still locked.
C17_WitnessPopped ==
    \E i \in Calls :
        /\ Call(i).expired # <<>>
        /\ Len(Call(i).expired) < Len(Call(i).before.votes)
        /\ Call(i).expired[Len(Call(i).expired)].signature # SignatureDefault

(* --------------------------------- C18 --------------------------------- *)

\* The stack of call c after the new entry was appended and before the
\* escalation.
Appended(c) == push_vote(c.before, c.expired, c.slot, c.signature).votes

\* Entry i (1-based) of the appended stack of call c is due for escalation.
Due(c, i) ==
    Len(Appended(c)) > (i - 1) + Appended(c)[i].lockout.confirmation_count

\* C18: at the end of every process_vote_slot call, with D the depth of the
\* stack after the new entry was appended, the entry at 0-based position i
\* has its confirmation_count raised by exactly one if D > i +
\* confirmation_count(i) and unchanged otherwise; slots and signatures are
\* as before the escalation.
C18_EscalationByPosition ==
    \A c \in Calls :
        /\ Len(Call(c).after.votes) = Len(Appended(Call(c)))
        /\ \A i \in 1 .. Len(Appended(Call(c))) :
               /\ Call(c).after.votes[i].lockout.slot
                      = Appended(Call(c))[i].lockout.slot
               /\ Call(c).after.votes[i].signature = Appended(Call(c))[i].signature
               /\ Call(c).after.votes[i].lockout.confirmation_count
                      = Appended(Call(c))[i].lockout.confirmation_count
                            + (IF Due(Call(c), i) THEN 1 ELSE 0)

\* A call whose escalation raised one entry and left another one, below the
\* new entry, as it was.
C18_Witness ==
    \E c \in Calls :
        \E i, j \in 1 .. Len(Appended(Call(c))) - 1 :
            /\ Due(Call(c), i)
            /\ ~Due(Call(c), j)
            /\ Call(c).after.votes[i].lockout.confirmation_count
                   = Appended(Call(c))[i].lockout.confirmation_count + 1
            /\ Call(c).after.votes[j] = Appended(Call(c))[j]

(* --------------------------------- C19 --------------------------------- *)

\* The slot and signature of each entry of a stack, in order.
Identities(votes) ==
    [i \in 1 .. Len(votes) |-> <<votes[i].lockout.slot, votes[i].signature>>]

C19_WitnessIncident ==
    \E c \in Calls :
        /\ Raised(Call(c))
        /\ last_voted_slot(Call(c).after) = Call(c).slot

(* --------------------------------- C20 --------------------------------- *)

\* The history of tower with the entry of the vote event just handled
\* appended at its back.
WithNewEntry(tower) ==
    Append(tower.vote_history,
           [signature |-> calls'[1].signature,
            slots     |-> [i \in 1 .. Len(calls') |-> calls'[i].slot]])

\* The positions of h whose signature is the one held by the oldest stack
\* entry of tower.
MatchingOldest(tower, h) ==
    {i \in 1 .. Len(h) :
        tower.votes # <<>> /\ h[i].signature = tower.votes[1].signature}

\* A step that handles a vote event with new slots: the history it leaves is
\* the old history with the new entry appended, from the first entry that
\* carries the signature of the oldest stack entry onward, and all of it when
\* no entry carries that signature.
RecordStep ==
    (event'.kind = "vote" /\ calls' # <<>>) =>
        LET tower == TowerOf(event'.address)
            h     == WithNewEntry(tower)
            kept  == towers'[event'.address].vote_history
        IN  IF MatchingOldest(tower, h) = {}
            THEN kept = h
            ELSE kept = SubSeq(h, Min(MatchingOldest(tower, h)), Len(h))

\* C20: the history push of a vote event appends (signature, slots) at the
\* back of the history and then removes from the front exactly the entries
\* that precede the first entry whose signature equals the signature held by
\* the stack's oldest position; with no such entry the history is left as it
\* is apart from the append; the retained entries keep their order.
C20_HistoryPrunedToOldest == [][RecordStep]_vars

\* The history push of the vote event just handled removed an entry from the
\* front of the history.
C20_Witness ==
    /\ event.kind = "vote"
    /\ calls # <<>>
    /\ event.pruned > 0
    /\ Len(towers[event.address].vote_history) > 1

\* The history push found no entry with the signature of the oldest stack
\* entry, a placeholder, and removed nothing.
C20_WitnessNoMatch ==
    /\ event.kind = "vote"
    /\ calls # <<>>
    /\ event.pruned = 0
    /\ Call(1).before.votes[1].signature = SignatureDefault
    /\ Len(towers[event.address].vote_history) > 1

(* --------------------------------- C21 --------------------------------- *)

\* The slots of vote_slots above the last voted slot of tower.
Remaining(tower, vote_slots) ==
    {vote_slots[i] : i \in {j \in 1 .. Len(vote_slots) :
                               vote_slots[j] > last_voted_slot(tower)}}

\* The vote branch applied, in the current state, to the vote event
\* (address, signature, vote_slots).
Handled(address, signature, vote_slots) ==
    handle_vote(TowerOf(address), files, processed_vote_counter,
                incident_counter, address, signature, vote_slots,
                slot_ancestors, DeliveryOk)

\* What the vote branch does with the vote event (address, signature,
\* vote_slots): its calls register exactly the remaining slots, once each, in
\* ascending order, for this validator and with this signature; the first
\* call finds the history with the entry (signature, remaining slots) at its
\* back, and no call changes the history again; the counter grows by the
\* number of calls.
HandledInOrder(address, signature, vote_slots) ==
    \A done \in {Handled(address, signature, vote_slots)} :
    LET tower     == TowerOf(address)
        remaining == Remaining(tower, vote_slots)
        log       == done.calls
        n         == Len(log)
    IN  /\ done.panic = "none"
        /\ {log[i].slot : i \in 1 .. n} = remaining
        /\ n = Cardinality(remaining)
        /\ \A i \in 1 .. n - 1 : log[i].slot < log[i + 1].slot
        /\ \A i \in 1 .. n : /\ log[i].signature = signature
                             /\ log[i].validator = address
        /\ log[1].before.votes = tower.votes
        /\ log[1].before.root_slot = tower.root_slot
        /\ Len(log[1].before.vote_history) > 0
        /\ log[1].before.vote_history[Len(log[1].before.vote_history)]
               = [signature |-> signature,
                  slots     |-> [i \in 1 .. n |-> log[i].slot]]
        /\ Len(log[1].before.vote_history) <= Len(tower.vote_history) + 1
        /\ \A i \in 1 .. n :
               log[i].after.vote_history = log[1].before.vote_history
        /\ done.tower.vote_history = log[1].before.vote_history
        /\ done.processed_vote_counter = processed_vote_counter + n

\* C21: for a vote event with at least one slot strictly greater than the
\* Tower's last_voted_slot(), the history push is made exactly once, before
\* any process_vote_slot call of the event, and then exactly the slots
\* strictly greater than the last_voted_slot() read at the start of the
\* event, duplicates removed, are passed to process_vote_slot once each, in
\* ascending order, all with the event's signature; processed_vote_counter
\* grows by the number of those slots.  Stated for every vote event of up to
\* MaxVoteLen slots in 0 .. MaxSlot that can arrive in the current state.
C21_NewSlotsRegisteredInOrder ==
    \A address \in Validators, signature \in Signatures,
       vote_slots \in SeqsUpTo(0 .. MaxSlot, MaxVoteLen) :
        Remaining(TowerOf(address), vote_slots) # {}
            => HandledInOrder(address, signature, vote_slots)

\* A vote event of two distinct new slots was handled: two calls, in
\* ascending order, and one history entry with both slots.
C21_Witness ==
    /\ event.kind = "vote"
    /\ event.slots = 2
    /\ Len(calls) = 2
    /\ Call(1).slot < Call(2).slot
    /\ towers[event.address].vote_history
           [Len(towers[event.address].vote_history)].slots
           = <<Call(1).slot, Call(2).slot>>

\* A vote event of two slots, one of them new, was handled by a Tower that
\* had registered votes before: one call.
C21_WitnessPartlyStale ==
    /\ event.kind = "vote"
    /\ event.slots = 2
    /\ event.new = 1
    /\ Len(calls) = 1
    /\ processed_vote_counter > 1

(* --------------------------------- C22 --------------------------------- *)

\* Every element of slots is smaller than the next one.
StrictlyAscending(slots) ==
    \A i \in 1 .. Len(slots) - 1 : slots[i] < slots[i + 1]

\* The slot lists the validation is checked on: one slot longer than the
\* vote events of the specification, so that chunks_exact(2) leaves a
\* remainder behind a checked pair.
CheckedSlotLists == SeqsUpTo(0 .. MaxSlot, MaxVoteLen + 1)

\* C22: the validation of a vote's slot list cannot fail: on the sorted and
\* deduplicated list of any input the check on chunks of two finds no pair
\* with pair[0] >= pair[1], as a check of the whole list for strict ascent
\* finds none, and no reachable state has the panic "Invalid vote pair".
C22_ValidationNeverFails ==
    /\ panic # "Invalid vote pair"
    /\ \A vote_slots \in CheckedSlotLists :
           \A slots \in {dedup_slots(sort_slots(vote_slots))} :
               /\ ~invalid_vote_pair(slots)
               /\ StrictlyAscending(slots)
               /\ invalid_vote_pair(slots) <=> ~StrictlyAscending(slots)

\* A vote event of two slots has passed the validation and both its slots
\* were registered, after an earlier vote event of the same validator.
C22_Witness ==
    /\ event.kind = "vote"
    /\ event.slots = 2
    /\ event.new = 2
    /\ panic = "none"
    /\ processed_vote_counter = 3

(* --------------------------------- C23 --------------------------------- *)

\* The keys of the tracker that no block-production event has reported as
\* its slot: entries created for a parent.
ParentOnlyKeys == DOMAIN slot_ancestors \ {r[1] : r \in reported}

\* A step that handles a new slot whose parent is not a key: the ancestors of
\* the slot are exactly {parent}, the parent has an entry with the empty
\* set, and either of the two is missing afterwards only if the map is at
\* its cap (it was evicted).
ParentEntryStep ==
    (/\ event'.kind = "slot"
     /\ ~event'.duplicate
     /\ event'.parent \notin DOMAIN slot_ancestors) =>
        /\ event'.ancestors = {event'.parent}
        /\ event'.slot \in DOMAIN slot_ancestors' =>
               slot_ancestors'[event'.slot] = {event'.parent}
        /\ event'.parent \in DOMAIN slot_ancestors' =>
               slot_ancestors'[event'.parent] = {}
        /\ \/ {event'.slot, event'.parent} \subseteq DOMAIN slot_ancestors'
           \/ Cardinality(DOMAIN slot_ancestors') = MAX_TRACKED_SLOTS

\* A step that handles a block-production event for a slot that is a key
\* only because it was some slot's parent: the slot is found present, the
\* assertion fails and the tracker is left as it was.
LateParentStep ==
    (event'.kind = "slot" /\ event'.slot \in ParentOnlyKeys) =>
        /\ event'.duplicate
        /\ panic' = "slot already present in slot_ancestors"
        /\ slot_ancestors' = slot_ancestors

\* C23: a block-production event {slot, parent} whose parent is not yet a
\* key of the tracker creates an entry for the parent with an empty ancestor
\* set, so that the parent is a known slot from then on (until the map cap
\* evicts it), and the ancestors of slot are exactly {parent}; a
\* block-production event for that parent arriving later is handled as a
\* slot already present.
C23_ParentEntryCreated == [][ParentEntryStep /\ LateParentStep]_vars

\* The block-production event of a slot that had been entered as the parent
\* of a slot reported earlier was found already present.
C23_Witness ==
    /\ event.kind = "slot"
    /\ event.duplicate
    /\ event.slot \in ParentOnlyKeys
    /\ slot_ancestors[event.slot] = {}
    /\ \E r \in reported : r[2] = event.slot /\ r[1] \in DOMAIN slot_ancestors
                           /\ slot_ancestors[r[1]] = {event.slot}

\* The violation check was performed for a vote slot that is a key only
\* because it was some slot's parent, with its empty ancestor set.
C23_WitnessChecked ==
    \E i \in Calls :
        /\ AllKnown(Call(i))
        /\ Call(i).slot \in ParentOnlyKeys
        /\ Raised(Call(i))

(* --------------------------------- C24 --------------------------------- *)

\* confirmation_count(i) <= MAX_LOCKOUT_HISTORY - i for every 0-based
\* position i of a stack (positions are 1-based here).
CountsWithinCapacity(votes) ==
    \A i \in 1 .. Len(votes) :
        Count(votes, i) <= MAX_LOCKOUT_HISTORY - (i - 1)

\* The confirmation counts do not increase from the oldest entry to the
\* newest.
CountsNonIncreasing(votes) ==
    \A i \in 1 .. Len(votes) - 1 : Count(votes, i) >= Count(votes, i + 1)

\* C24: in every reachable Tower state, before and after every
\* process_vote_slot call and between events, confirmation_count(i) <=
\* MAX_LOCKOUT_HISTORY - i for every 0-based stack position i, so that
\* 2^confirmation_count stays within 2^MAX_LOCKOUT_HISTORY; and after every
\* process_vote_slot call the confirmation counts are non-increasing from
\* the oldest entry to the newest.
C24_CountsBoundedAndOrdered ==
    /\ \A a \in Validators : CountsWithinCapacity(TowerOf(a).votes)
    /\ \A k \in Calls :
           /\ CountsWithinCapacity(Call(k).before.votes)
           /\ CountsWithinCapacity(Call(k).after.votes)
           /\ CountsNonIncreasing(Call(k).after.votes)
           /\ \A i \in 1 .. Len(Call(k).after.votes) :
                  Pow2(Count(Call(k).after.votes, i)) <= Pow2(MAX_LOCKOUT_HISTORY)

\* A call left a full stack whose oldest entry has reached the largest count
\* its position allows and whose counts fall strictly to the newest entry.
C24_Witness ==
    \E k \in Calls :
        /\ Len(Call(k).after.votes) = MAX_LOCKOUT_HISTORY
        /\ Count(Call(k).after.votes, 1) = MAX_LOCKOUT_HISTORY
        /\ \A i \in 1 .. MAX_LOCKOUT_HISTORY - 1 :
               Count(Call(k).after.votes, i) > Count(Call(k).after.votes, i + 1)

\* A call whose expire step popped entries left an entry whose count is
\* above depth - i, still within MAX_LOCKOUT_HISTORY - i and not below the
\* count of the entry pushed above it.
C24_WitnessAfterExpiry ==
    \E k \in Calls :
        /\ Len(Call(k).expired) < Len(Call(k).before.votes)
        /\ \E i \in 1 .. Len(Call(k).after.votes) :
               Count(Call(k).after.votes, i)
                   > Len(Call(k).after.votes) - (i - 1)

====
